---- MODULE Spec2Model ----
(***************************************************************************)
(* Tuple collectors of pkg/services/accesscontrol/dualwrite/collectors.go. *)
(* Three legacy collectors read rows of the relational store and build a   *)
(* map object -> (tuple key -> tuple); zanzanaCollector pages through the  *)
(* authorization engine's Read endpoint and builds a flat map key -> tuple.*)
(***************************************************************************)
EXTENDS Integers, Sequences, FiniteSets, TLC

VARIABLES
    pc,           \* position of the running collector call
    memberships,  \* teamMembershipCollector: rows scanned by the query
    folders,      \* folderTreeCollector: rows scanned by the query
    permissions,  \* managedPermissionsCollector: rows scanned by the query
    kind,         \* managedPermissionsCollector: the kind it was built with
    i,            \* number of rows the range loop has consumed
    tuples,       \* legacy collectors: the map object -> key -> tuple
    relations,    \* zanzanaCollector: the relations it was built with
    r,            \* zanzanaCollector: index of the relation being listed
    first,        \* list: the first response's Tuples, with later pages appended
    c,            \* list: the last continuation token returned
    listed,       \* the tuples list(relation) returned
    out,          \* zanzanaCollector: the map key -> tuple
    reads,        \* history of the client.Read calls of this invocation
    ret           \* what the call returned: [nil, tuples, err]

vars == <<pc, memberships, folders, permissions, kind, i, tuples,
          relations, r, first, c, listed, out, reads, ret>>

----------------------------------------------------------------------------
(* Bounds of the model *)

MaxMemberships == 3
MaxFolders == 4
MaxPermissions == 3
MaxPages == 2
MaxPageTuples == 2

TeamUIDs == {"t1", "t2"}
UserUIDs == {"u1", "u2"}
Levels == {0, 1, 4}
OrgIDs == {1, 2}
FolderUIDs == {"f1", "f2", "f3"}

----------------------------------------------------------------------------
(* Vocabulary of package zanzana *)

TypeUser == "user"
TypeTeam == "team"
TypeFolder == "folder"
RelationTeamMember == "member"
RelationTeamAdmin == "admin"
RelationParent == "parent"

NoCondition == <<>>
EmptyMap == [k \in {} |-> k]
NoError == ""

\* strings.HasPrefix
HasPrefix(s, p) == Len(s) >= Len(p) /\ SubSeq(s, 1, Len(p)) = p

\* m[k] = v on a Go map
Put(m, k, v) == [x \in (DOMAIN m) \cup {k} |-> IF x = k THEN v ELSE m[x]]

\* zanzana.NewTupleEntry: type:identifier[#sub-relation]
NewTupleEntry(objectType, name, relation) ==
    IF relation = ""
    THEN objectType \o ":" \o name
    ELSE objectType \o ":" \o name \o "#" \o relation

RECURSIVE JoinGroups(_)
\* The resource groups of a condition, as they appear in the tuple's string
JoinGroups(groups) ==
    IF groups = <<>> THEN ""
    ELSE IF Len(groups) = 1 THEN groups[1]
    ELSE groups[1] \o "+" \o JoinGroups(Tail(groups))

\* TupleKey.String(): object#relation@subject[,condition]
String(tuple) ==
    tuple.Object \o "#" \o tuple.Relation \o "@" \o tuple.User \o
    (IF tuple.Condition = NoCondition THEN ""
     ELSE "," \o JoinGroups(tuple.Condition))

TupleKey(user, relation, object, condition) ==
    [User |-> user, Relation |-> relation, Object |-> object, Condition |-> condition]

\* Faulty variant of Failed: the map built so far is returned with the error.
FailedWithPartial(err) == [nil |-> FALSE, tuples |-> out, err |-> err]

\* return tuples, nil
Returned(m) == [nil |-> FALSE, tuples |-> m, err |-> NoError]

\* return nil, err
Failed(err) == [nil |-> TRUE, tuples |-> EmptyMap, err |-> err]

\* The call has not returned yet
NotReturned == [nil |-> TRUE, tuples |-> EmptyMap, err |-> NoError]

RECURSIVE SeqsUpTo(_, _)
SeqsUpTo(S, n) ==
    IF n = 0 THEN {<<>>}
    ELSE LET shorter == SeqsUpTo(S, n - 1)
         IN  shorter \cup {Append(s, x) : s \in {t \in shorter : Len(t) = n - 1}, x \in S}

----------------------------------------------------------------------------
(* teamMembershipCollector *)

Membership == [TeamUID : TeamUIDs, UserUID : UserUIDs, Permission : Levels]

\* Faulty variant of TeamRelation: every level but member (0) is taken for admin.
TeamRelationNonZero(permission) ==
    IF permission # 0 THEN RelationTeamAdmin ELSE RelationTeamMember

\* collectors.go:46-51
TeamRelation(permission) ==
    IF permission = 4 THEN RelationTeamAdmin ELSE RelationTeamMember

\* collectors.go:41-51
TeamTuple(m) ==
    TupleKey(NewTupleEntry(TypeUser, m.UserUID, ""),
             TeamRelation(m.Permission),
             NewTupleEntry(TypeTeam, m.TeamUID, ""),
             NoCondition)

\* collectors.go:53-57
Store(ts, tuple) ==
    LET inner == IF tuple.Object \in DOMAIN ts THEN ts[tuple.Object] ELSE EmptyMap
    IN  Put(ts, tuple.Object, Put(inner, String(tuple), tuple))

InitCommon ==
    /\ memberships = <<>>
    /\ folders = <<>>
    /\ permissions = <<>>
    /\ i = 0
    /\ tuples = EmptyMap
    /\ r = 1
    /\ first = <<>>
    /\ c = ""
    /\ listed = <<>>
    /\ out = EmptyMap
    /\ reads = <<>>
    /\ ret = NotReturned

InitTeam ==
    /\ pc = "team"
    /\ kind = ""
    /\ relations = <<>>
    /\ InitCommon

\* collectors.go:29-38, the query succeeds
TeamQuery ==
    /\ pc = "team"
    /\ \E rows \in SeqsUpTo(Membership, MaxMemberships) : memberships' = rows
    /\ tuples' = EmptyMap
    /\ i' = 0
    /\ pc' = "team_loop"
    /\ UNCHANGED <<folders, permissions, kind, relations, r, first, c, listed, out, reads, ret>>

\* collectors.go:34-36, the query fails
TeamQueryError ==
    /\ pc = "team"
    /\ ret' = Failed("query failed")
    /\ pc' = "returned"
    /\ UNCHANGED <<memberships, folders, permissions, kind, i, tuples,
                   relations, r, first, c, listed, out, reads>>

\* collectors.go:40-58, one iteration
TeamRow ==
    /\ pc = "team_loop"
    /\ i < Len(memberships)
    /\ tuples' = Store(tuples, TeamTuple(memberships[i + 1]))
    /\ i' = i + 1
    /\ UNCHANGED <<pc, memberships, folders, permissions, kind,
                   relations, r, first, c, listed, out, reads, ret>>

\* collectors.go:60
TeamReturn ==
    /\ pc = "team_loop"
    /\ i = Len(memberships)
    /\ ret' = Returned(tuples)
    /\ pc' = "returned"
    /\ UNCHANGED <<memberships, folders, permissions, kind, i, tuples,
                   relations, r, first, c, listed, out, reads>>

NextTeam == TeamQuery \/ TeamQueryError \/ TeamRow \/ TeamReturn

SpecTeam == InitTeam /\ [][NextTeam]_vars

----------------------------------------------------------------------------
(* folderTreeCollector *)

RECURSIVE ReachesRoot(_, _, _)
ReachesRoot(table, f, n) ==
    \/ f.ParentUID = ""
    \/ /\ n > 0
       /\ \E p \in table : /\ p.OrgID = f.OrgID
                           /\ p.FolderUID = f.ParentUID
                           /\ ReachesRoot(table, p, n - 1)

TableRows(table) ==
    {[OrgID |-> k[1], FolderUID |-> k[2], ParentUID |-> table[k]] : k \in DOMAIN table}

\* The folder table: uid is unique within an organization, a parent is a folder
\* of the same organization, and the tree has no cycle.
FolderTables ==
    {table \in UNION {[K -> FolderUIDs \cup {""}] : K \in SUBSET (OrgIDs \X FolderUIDs)} :
        /\ Cardinality(DOMAIN table) <= MaxFolders
        /\ \A f \in TableRows(table) :
              ReachesRoot(TableRows(table), f, Cardinality(FolderUIDs))}

\* The query has no ORDER BY: the rows come in any order.
Orderings(S) ==
    {s \in [1..Cardinality(S) -> S] : \A a, b \in 1..Cardinality(S) : s[a] = s[b] => a = b}

\* collectors.go:96-100
FolderTuple(f) ==
    TupleKey(NewTupleEntry(TypeFolder, f.ParentUID, ""),
             RelationParent,
             NewTupleEntry(TypeFolder, f.FolderUID, ""),
             NoCondition)

\* Faulty variant of FolderStep: the root folders are not skipped.
FolderStepNoSkip(ts, f) == Store(ts, FolderTuple(f))

\* collectors.go:90-107, the body of the loop
FolderStep(ts, f) ==
    IF f.ParentUID = "" THEN ts ELSE Store(ts, FolderTuple(f))

InitFolder ==
    /\ pc = "folder"
    /\ kind = ""
    /\ relations = <<>>
    /\ InitCommon

\* collectors.go:79-88, the query succeeds
FolderQuery ==
    /\ pc = "folder"
    /\ \E table \in FolderTables : \E rows \in Orderings(TableRows(table)) : folders' = rows
    /\ tuples' = EmptyMap
    /\ i' = 0
    /\ pc' = "folder_loop"
    /\ UNCHANGED <<memberships, permissions, kind, relations, r, first, c, listed, out, reads, ret>>

\* collectors.go:84-86, the query fails
FolderQueryError ==
    /\ pc = "folder"
    /\ ret' = Failed("query failed")
    /\ pc' = "returned"
    /\ UNCHANGED <<memberships, folders, permissions, kind, i, tuples,
                   relations, r, first, c, listed, out, reads>>

\* collectors.go:90-107, one iteration
FolderRow ==
    /\ pc = "folder_loop"
    /\ i < Len(folders)
    /\ tuples' = FolderStep(tuples, folders[i + 1])
    /\ i' = i + 1
    /\ UNCHANGED <<pc, memberships, folders, permissions, kind,
                   relations, r, first, c, listed, out, reads, ret>>

\* collectors.go:109
FolderReturn ==
    /\ pc = "folder_loop"
    /\ i = Len(folders)
    /\ ret' = Returned(tuples)
    /\ pc' = "returned"
    /\ UNCHANGED <<memberships, folders, permissions, kind, i, tuples,
                   relations, r, first, c, listed, out, reads>>

NextFolder == FolderQuery \/ FolderQueryError \/ FolderRow \/ FolderReturn

SpecFolder == InitFolder /\ [][NextFolder]_vars

----------------------------------------------------------------------------
(* managedPermissionsCollector *)

Kinds == {"folders", "dashboards"}
Actions == {"folders:read", "dashboards:read", "library.panels:read", "folders:unknown"}
Identifiers == {"f1", "f2"}
Bindings == {<<"u1", "">>, <<"", "t1">>, <<"", "">>, <<"u1", "t1">>}

\* Rows of kind k: every binding and action on the first identifier, and the
\* user's dashboard and library-panel grants on the second.
Permission(k) ==
    {p \in [UserUID : {b[1] : b \in Bindings}, TeamUID : {b[2] : b \in Bindings},
            Action : Actions, Kind : {k}, Identifier : Identifiers] :
        \/ p.Identifier = "f1"
        \/ /\ p.UserUID # "" /\ p.TeamUID = ""
           /\ p.Action \in {"dashboards:read", "library.panels:read"}}

RelationGet == "get"
RelationFolderResourceGet == "resource_get"
TypeResource == "resource"
GroupDashboards == "g1"
GroupLibraryPanels == "g2"

Range(s) == {s[n] : n \in DOMAIN s}

\* zanzana.TranslateToResourceTuple: (tuple, ok); ok = FALSE for a combination
\* the schema does not support.
TranslateToResourceTuple(subject, action, k, name) ==
    LET miss == [ok |-> FALSE, tuple |-> TupleKey("", "", "", NoCondition)]
        hit(t) == [ok |-> TRUE, tuple |-> t]
    IN  IF k = "folders"
        THEN CASE action = "folders:read" ->
                    hit(TupleKey(subject, RelationGet,
                                 NewTupleEntry(TypeFolder, name, ""), NoCondition))
               [] action = "dashboards:read" ->
                    hit(TupleKey(subject, RelationFolderResourceGet,
                                 NewTupleEntry(TypeFolder, name, ""), <<GroupDashboards>>))
               [] action = "library.panels:read" ->
                    hit(TupleKey(subject, RelationFolderResourceGet,
                                 NewTupleEntry(TypeFolder, name, ""), <<GroupLibraryPanels>>))
               [] OTHER -> miss
        ELSE IF k = "dashboards" /\ action = "dashboards:read"
        THEN hit(TupleKey(subject, RelationGet,
                          NewTupleEntry(TypeResource, GroupDashboards \o "/" \o name, ""),
                          NoCondition))
        ELSE miss

\* zanzana.IsFolderResourceTuple: a resource relation on a folder object
IsFolderResourceTuple(tuple) ==
    /\ HasPrefix(tuple.Object, TypeFolder)
    /\ HasPrefix(tuple.Relation, "resource_")

RECURSIVE Union(_, _)
Union(a, b) ==
    IF b = <<>> THEN a
    ELSE IF Head(b) \in Range(a) THEN Union(a, Tail(b))
    ELSE Union(Append(a, Head(b)), Tail(b))

\* zanzana.MergeFolderResourceTuples(a, b): a's condition becomes the union of
\* the resource groups of a and b; the value is a after the call.
MergeFolderResourceTuples(a, b) ==
    [a EXCEPT !.Condition = Union(a.Condition, b.Condition)]

\* Faulty variant of tupleStringWithoutCondition: the condition is not taken out.
tupleStringKeepsCondition(tuple) == String(tuple)

\* collectors.go:191-197
tupleStringWithoutCondition(tuple) ==
    String([tuple EXCEPT !.Condition = NoCondition])

\* Faulty variant of Subject: a row with no user binding is taken for a team binding.
SubjectNoOrgRole(p) ==
    IF Len(p.UserUID) > 0 THEN <<TRUE, NewTupleEntry(TypeUser, p.UserUID, "")>>
    ELSE <<TRUE, NewTupleEntry(TypeTeam, p.TeamUID, "member")>>

\* collectors.go:152-160: <<bound, subject>>
Subject(p) ==
    IF Len(p.UserUID) > 0 THEN <<TRUE, NewTupleEntry(TypeUser, p.UserUID, "")>>
    ELSE IF Len(p.TeamUID) > 0 THEN <<TRUE, NewTupleEntry(TypeTeam, p.TeamUID, "member")>>
    ELSE <<FALSE, "">>

\* collectors.go:167-184
StoreManaged(ts, tuple) ==
    LET inner == IF tuple.Object \in DOMAIN ts THEN ts[tuple.Object] ELSE EmptyMap
    IN  IF IsFolderResourceTuple(tuple)
        THEN LET key == tupleStringWithoutCondition(tuple)
             IN  IF key \in DOMAIN inner
                 THEN Put(ts, tuple.Object,
                          Put(inner, key, MergeFolderResourceTuples(inner[key], tuple)))
                 ELSE Put(ts, tuple.Object, Put(inner, key, tuple))
        ELSE Put(ts, tuple.Object, Put(inner, String(tuple), tuple))

\* collectors.go:151-185, the body of the loop
ManagedStep(ts, p) ==
    LET s == Subject(p)
        t == TranslateToResourceTuple(s[2], p.Action, p.Kind, p.Identifier)
    IN  IF ~s[1] THEN ts
        ELSE IF ~t.ok THEN ts
        ELSE StoreManaged(ts, t.tuple)

InitManaged ==
    /\ pc = "managed"
    /\ kind \in Kinds
    /\ relations = <<>>
    /\ InitCommon

\* collectors.go:140-149, the query succeeds: rows of the requested kind
ManagedQuery ==
    /\ pc = "managed"
    /\ \E rows \in SeqsUpTo(Permission(kind), MaxPermissions) : permissions' = rows
    /\ tuples' = EmptyMap
    /\ i' = 0
    /\ pc' = "managed_loop"
    /\ UNCHANGED <<memberships, folders, kind, relations, r, first, c, listed, out, reads, ret>>

\* collectors.go:145-147, the query fails
ManagedQueryError ==
    /\ pc = "managed"
    /\ ret' = Failed("query failed")
    /\ pc' = "returned"
    /\ UNCHANGED <<memberships, folders, permissions, kind, i, tuples,
                   relations, r, first, c, listed, out, reads>>

\* collectors.go:151-185, one iteration
ManagedRow ==
    /\ pc = "managed_loop"
    /\ i < Len(permissions)
    /\ tuples' = ManagedStep(tuples, permissions[i + 1])
    /\ i' = i + 1
    /\ UNCHANGED <<pc, memberships, folders, permissions, kind,
                   relations, r, first, c, listed, out, reads, ret>>

\* collectors.go:187
ManagedReturn ==
    /\ pc = "managed_loop"
    /\ i = Len(permissions)
    /\ ret' = Returned(tuples)
    /\ pc' = "returned"
    /\ UNCHANGED <<memberships, folders, permissions, kind, i, tuples,
                   relations, r, first, c, listed, out, reads>>

NextManaged == ManagedQuery \/ ManagedQueryError \/ ManagedRow \/ ManagedReturn

SpecManaged == InitManaged /\ [][NextManaged]_vars

----------------------------------------------------------------------------
(* zanzanaCollector *)

object == NewTupleEntry(TypeFolder, "f1", "")
namespace == "default"
Token == "next"

RelationLists ==
    {<<RelationFolderResourceGet>>, <<RelationGet>>,
     <<RelationFolderResourceGet, RelationGet>>, <<RelationGet, RelationFolderResourceGet>>}

\* authzextv1.Tuple values a read of (object, relation) can carry
EngineTuples(relation) ==
    IF relation = RelationFolderResourceGet
    THEN {[Key |-> TupleKey(NewTupleEntry(TypeUser, u, ""), relation, object, g)] :
              u \in {"u1"}, g \in {<<GroupDashboards>>, <<GroupLibraryPanels>>}}
         \cup {[Key |-> TupleKey(NewTupleEntry(TypeUser, "u2", ""), relation, object,
                                 <<GroupDashboards>>)]}
    ELSE {[Key |-> TupleKey(NewTupleEntry(TypeUser, "u1", ""), relation, object, NoCondition)]}

\* The pages a response can carry: at most MaxPageTuples tuples, none of them twice
Pages(relation) ==
    {page \in SeqsUpTo(EngineTuples(relation), MaxPageTuples) :
        \A a, b \in DOMAIN page : page[a] = page[b] => a = b}

\* common.ToOpenFGATuples: authzextv1.Tuple -> openfgav1.Tuple, field by field
ToOpenFGATuples(ts) ==
    [n \in DOMAIN ts |->
        [Key |-> TupleKey(ts[n].Key.User, ts[n].Key.Relation,
                          ts[n].Key.Object, ts[n].Key.Condition)]]

\* collectors.go:203-209, the request of the first read
FirstRequest(relation) ==
    [Namespace |-> namespace, Object |-> object, Relation |-> relation,
     ContinuationToken |-> ""]

\* collectors.go:218-224, the request of a follow-up read after token
NextRequest(relation, token) ==
    [Namespace |-> namespace, Object |-> object, Relation |-> relation,
     ContinuationToken |-> ""]

\* Number of reads issued so far for relation
ReadsOf(relation) ==
    Cardinality({n \in DOMAIN reads : reads[n].req.Relation = relation})

\* client.Read: the responses the engine can give to a read of relation. Repeated
\* reads of one request yield an empty token at the latest on read MaxPages.
Responses(relation) ==
    {[Tuples |-> page, ContinuationToken |-> tok, err |-> NoError] :
        page \in Pages(relation),
        tok \in IF ReadsOf(relation) + 1 >= MaxPages THEN {""} ELSE {"", Token}}

ReadError == [Tuples |-> <<>>, ContinuationToken |-> "", err |-> "read failed"]

\* Faulty variant of AppendPage: a follow-up page replaces the tuples read before it.
AppendPageReplaces(acc, page) == page

\* collectors.go:230
AppendPage(acc, page) == acc \o page

\* Faulty variant of MorePages: the loop is left after the first read.
MorePagesNever(token) == FALSE

\* collectors.go:217, the loop condition
MorePages(token) == token # ""

\* Faulty variant of FillOne: a key already in the map keeps its tuple.
FillOneKeepsFirst(m, key) ==
    LET k == IF IsFolderResourceTuple(key)
             THEN tupleStringWithoutCondition(key) ELSE String(key)
    IN  IF k \in DOMAIN m THEN m ELSE Put(m, k, key)

\* collectors.go:243-247
FillOne(m, key) ==
    IF IsFolderResourceTuple(key)
    THEN Put(m, tupleStringWithoutCondition(key), key)
    ELSE Put(m, String(key), key)

\* collectors.go:242-248
RECURSIVE Fill(_, _)
Fill(m, ts) ==
    IF ts = <<>> THEN m ELSE Fill(FillOne(m, Head(ts).Key), Tail(ts))

InitZanzana ==
    /\ pc = "list"
    /\ kind = ""
    /\ relations \in RelationLists
    /\ InitCommon

\* collectors.go:203-215, the first read of relations[r] succeeds
ListFirstRead ==
    /\ pc = "list"
    /\ r <= Len(relations)
    /\ \E res \in Responses(relations[r]) :
          /\ reads' = Append(reads, [req |-> FirstRequest(relations[r]), res |-> res])
          /\ first' = res.Tuples
          /\ c' = res.ContinuationToken
    /\ pc' = "more-pages"
    /\ UNCHANGED <<memberships, folders, permissions, kind, i, tuples,
                   relations, r, listed, out, ret>>

\* collectors.go:211-213 and 239-241, the first read of relations[r] fails
ListFirstReadError ==
    /\ pc = "list"
    /\ r <= Len(relations)
    /\ reads' = Append(reads, [req |-> FirstRequest(relations[r]), res |-> ReadError])
    /\ ret' = Failed(ReadError.err)
    /\ pc' = "returned"
    /\ UNCHANGED <<memberships, folders, permissions, kind, i, tuples,
                   relations, r, first, c, listed, out>>

\* collectors.go:217-231, one iteration: the follow-up read succeeds
ListNextRead ==
    /\ pc = "more-pages"
    /\ MorePages(c)
    /\ \E res \in Responses(relations[r]) :
          /\ reads' = Append(reads, [req |-> NextRequest(relations[r], c), res |-> res])
          /\ c' = res.ContinuationToken
          /\ first' = AppendPage(first, res.Tuples)
    /\ UNCHANGED <<pc, memberships, folders, permissions, kind, i, tuples,
                   relations, r, listed, out, ret>>

\* collectors.go:225-227 and 239-241, a follow-up read fails
ListNextReadError ==
    /\ pc = "more-pages"
    /\ MorePages(c)
    /\ reads' = Append(reads, [req |-> NextRequest(relations[r], c), res |-> ReadError])
    /\ ret' = Failed(ReadError.err)
    /\ pc' = "returned"
    /\ UNCHANGED <<memberships, folders, permissions, kind, i, tuples,
                   relations, r, first, c, listed, out>>

\* collectors.go:217 and 233, the loop ends and list returns
ListDone ==
    /\ pc = "more-pages"
    /\ ~MorePages(c)
    /\ listed' = ToOpenFGATuples(first)
    /\ pc' = "done"
    /\ UNCHANGED <<memberships, folders, permissions, kind, i, tuples,
                   relations, r, first, c, out, reads, ret>>

\* collectors.go:242-248, the tuples of relations[r] go into out
FillOut ==
    /\ pc = "done"
    /\ out' = Fill(out, listed)
    /\ r' = r + 1
    /\ pc' = "list"
    /\ UNCHANGED <<memberships, folders, permissions, kind, i, tuples,
                   relations, first, c, listed, reads, ret>>

\* collectors.go:251
ZanzanaReturn ==
    /\ pc = "list"
    /\ r > Len(relations)
    /\ ret' = Returned(out)
    /\ pc' = "returned"
    /\ UNCHANGED <<memberships, folders, permissions, kind, i, tuples,
                   relations, r, first, c, listed, out, reads>>

NextZanzana ==
    \/ ListFirstRead \/ ListFirstReadError \/ ListNextRead \/ ListNextReadError
    \/ ListDone \/ FillOut \/ ZanzanaReturn

SpecZanzana == InitZanzana /\ [][NextZanzana]_vars

\* A call for one relation, in which every step that can be taken is eventually taken
InitList ==
    /\ InitZanzana
    /\ Len(relations) = 1

LiveZanzana == InitList /\ [][NextZanzana]_vars /\ WF_vars(NextZanzana)

----------------------------------------------------------------------------
(* Any collector *)

Init == InitTeam \/ InitFolder \/ InitManaged \/ InitZanzana

Next == NextTeam \/ NextFolder \/ NextManaged \/ NextZanzana

Spec == Init /\ [][Next]_vars

----------------------------------------------------------------------------
(* Properties of teamMembershipCollector *)

TeamTupleOf(m) ==
    [User |-> "user:" \o m.UserUID,
     Relation |-> IF m.Permission = 4 THEN "admin" ELSE "member",
     Object |-> "team:" \o m.TeamUID,
     Condition |-> NoCondition]

\* C6: every membership row (team t, user u, level p) has its tuple under object
\* team:t, with subject user:u and the admin relation exactly when p = 4, the member
\* relation otherwise; every tuple of the result comes from some row.
C6_TeamMembership ==
    (pc = "returned" /\ ~ret.nil) =>
        /\ \A n \in DOMAIN memberships :
              LET t == TeamTupleOf(memberships[n])
              IN  /\ t.Object \in DOMAIN ret.tuples
                  /\ \E key \in DOMAIN ret.tuples[t.Object] : ret.tuples[t.Object][key] = t
        /\ \A obj \in DOMAIN ret.tuples : \A key \in DOMAIN ret.tuples[obj] :
              \E n \in DOMAIN memberships :
                  /\ ret.tuples[obj][key] = TeamTupleOf(memberships[n])
                  /\ obj = "team:" \o memberships[n].TeamUID

C6_Witness ==
    /\ pc = "returned" /\ ~ret.nil
    /\ \E a, b \in DOMAIN memberships :
          /\ memberships[a].TeamUID = memberships[b].TeamUID
          /\ memberships[a].Permission = 4
          /\ memberships[b].Permission = 1
    /\ \E obj \in DOMAIN ret.tuples : Cardinality(DOMAIN ret.tuples[obj]) >= 2

----------------------------------------------------------------------------
(* Properties of folderTreeCollector *)

ParentTupleOf(f) ==
    [User |-> "folder:" \o f.ParentUID,
     Relation |-> "parent",
     Object |-> "folder:" \o f.FolderUID,
     Condition |-> NoCondition]

NonRoot(rows) == {n \in DOMAIN rows : rows[n].ParentUID # ""}

\* C7: after any number of rows, and in the result, the objects of the map are the
\* folders of the non-root rows consumed; each such row f with parent p has the tuple
\* folder:f#parent@folder:p under object folder:f; there is no other tuple. A row
\* with an empty parent adds nothing.
C7_FolderTree ==
    (pc \in {"folder_loop", "returned"} /\ (pc = "returned" => ~ret.nil)) =>
        LET done == NonRoot(SubSeq(folders, 1, i))
        IN  /\ pc = "returned" => (i = Len(folders) /\ ret.tuples = tuples)
            /\ DOMAIN tuples = {"folder:" \o folders[n].FolderUID : n \in done}
            /\ \A n \in done :
                  \E key \in DOMAIN tuples["folder:" \o folders[n].FolderUID] :
                      tuples["folder:" \o folders[n].FolderUID][key] = ParentTupleOf(folders[n])
            /\ \A obj \in DOMAIN tuples : \A key \in DOMAIN tuples[obj] :
                  \E n \in done : /\ tuples[obj][key] = ParentTupleOf(folders[n])
                                  /\ obj = "folder:" \o folders[n].FolderUID

C7_Witness ==
    /\ pc = "returned" /\ ~ret.nil
    /\ \E a, b \in DOMAIN folders :
          /\ folders[a].ParentUID = ""
          /\ folders[b].ParentUID = folders[a].FolderUID
          /\ folders[a].OrgID = folders[b].OrgID
          /\ ("folder:" \o folders[a].FolderUID) \notin DOMAIN ret.tuples
          /\ ("folder:" \o folders[b].FolderUID) \in DOMAIN ret.tuples

\* C8: in the result every child-folder object has exactly one parent tuple,
\* whatever rows the unfiltered query returns.
C8_OneParentPerFolder ==
    (pc = "returned" /\ ~ret.nil) =>
        \A obj \in DOMAIN ret.tuples : Cardinality(DOMAIN ret.tuples[obj]) = 1

----------------------------------------------------------------------------
(* Properties of managedPermissionsCollector *)

OrgRoleOnly(p) == p.UserUID = "" /\ p.TeamUID = ""

SubjectOf(p) ==
    IF p.UserUID # "" THEN "user:" \o p.UserUID ELSE "team:" \o p.TeamUID \o "#member"

Translated(p) == TranslateToResourceTuple(SubjectOf(p), p.Action, p.Kind, p.Identifier)

Skipped(p) == OrgRoleOnly(p) \/ ~Translated(p).ok

\* The rows that translate to a folder-scoped resource tuple
FolderGrants ==
    {n \in DOMAIN permissions :
        /\ ~Skipped(permissions[n])
        /\ IsFolderResourceTuple(Translated(permissions[n]).tuple)}

SameGrant(a, b) == a.User = b.User /\ a.Object = b.Object /\ a.Relation = b.Relation

\* C1: the rows that translate to folder-scoped resource tuples with the same
\* subject, object and relation are one entry of the object's map, under the key
\* without the condition, and its condition set is the union of their resource groups.
C1_FolderGrantsMerged ==
    (pc = "returned" /\ ~ret.nil) =>
        \A n \in FolderGrants :
            LET t == Translated(permissions[n]).tuple
                key == t.Object \o "#" \o t.Relation \o "@" \o t.User
                same == {m \in FolderGrants : SameGrant(Translated(permissions[m]).tuple, t)}
            IN  /\ t.Object \in DOMAIN ret.tuples
                /\ key \in DOMAIN ret.tuples[t.Object]
                /\ SameGrant(ret.tuples[t.Object][key], t)
                /\ Range(ret.tuples[t.Object][key].Condition) =
                      UNION {Range(Translated(permissions[m]).tuple.Condition) : m \in same}
                /\ Cardinality({k \in DOMAIN ret.tuples[t.Object] :
                                    SameGrant(ret.tuples[t.Object][k], t)}) = 1

C1_Witness ==
    /\ pc = "returned" /\ ~ret.nil
    /\ Len(permissions) >= 2
    /\ permissions[1].Action = "library.panels:read"
    /\ permissions[2].Action = "dashboards:read"
    /\ "folder:f1" \in DOMAIN ret.tuples
    /\ "folder:f1#resource_get@user:u1" \in DOMAIN ret.tuples["folder:f1"]
    /\ Range(ret.tuples["folder:f1"]["folder:f1#resource_get@user:u1"].Condition) = {"g1", "g2"}
    /\ Cardinality(DOMAIN ret.tuples["folder:f1"]) = 1

RECURSIVE Kept(_)
Kept(rows) ==
    IF rows = <<>> THEN <<>>
    ELSE IF Skipped(Head(rows)) THEN Kept(Tail(rows))
    ELSE <<Head(rows)>> \o Kept(Tail(rows))

RECURSIVE Collect(_, _)
Collect(ts, rows) ==
    IF rows = <<>> THEN ts ELSE Collect(ManagedStep(ts, Head(rows)), Tail(rows))

\* C5: a row bound to an organization role only, and a row the translation does not
\* support, add nothing and raise no error: after any number of rows, and in the
\* result, the map is the one the other rows alone produce.
C5_SkippedRows ==
    /\ (pc \in {"managed_loop", "returned"} /\ ret.err = NoError) =>
          /\ tuples = Collect(EmptyMap, Kept(SubSeq(permissions, 1, i)))
          /\ \A obj \in DOMAIN tuples : \A key \in DOMAIN tuples[obj] :
                \E n \in 1..i : /\ ~Skipped(permissions[n])
                                /\ SameGrant(tuples[obj][key], Translated(permissions[n]).tuple)
          /\ pc = "returned" => (~ret.nil /\ i = Len(permissions) /\ ret.tuples = tuples)
    /\ ret.err # NoError => i = 0

C5_Witness ==
    /\ pc = "returned" /\ ~ret.nil
    /\ \E a, b, d \in DOMAIN permissions :
          /\ OrgRoleOnly(permissions[a]) /\ Translated(permissions[a]).ok
          /\ ~OrgRoleOnly(permissions[b]) /\ ~Translated(permissions[b]).ok
          /\ ~Skipped(permissions[d])
    /\ Cardinality(DOMAIN ret.tuples) = 1

----------------------------------------------------------------------------
(* Properties of zanzanaCollector *)

\* The reads of one relation, in the order issued
ReadsFor(relation) == SelectSeq(reads, LAMBDA e : e.req.Relation = relation)

RECURSIVE KeysRead(_)
\* The tuple keys carried by the responses, in read order
KeysRead(log) ==
    IF log = <<>> THEN <<>>
    ELSE [n \in DOMAIN Head(log).res.Tuples |-> Head(log).res.Tuples[n].Key]
             \o KeysRead(Tail(log))

\* The key a tuple is stored under: without its condition for a folder-resource
\* tuple, its full string otherwise.
KeyOf(t) ==
    t.Object \o "#" \o t.Relation \o "@" \o t.User \o
    (IF IsFolderResourceTuple(t) \/ t.Condition = NoCondition THEN ""
     ELSE "," \o JoinGroups(t.Condition))

\* C2: for each relation the reads stop at the first empty continuation token (k
\* reads when reads 1..k-1 return a token and read k none), and every tuple of
\* every response has its key in the returned map.
C2_AllPagesAccumulated ==
    (pc = "returned" /\ ~ret.nil) =>
        /\ \A n \in DOMAIN relations :
              LET rs == ReadsFor(relations[n])
              IN  /\ Len(rs) >= 1
                  /\ rs[Len(rs)].res.ContinuationToken = ""
                  /\ \A j \in 1..(Len(rs) - 1) : rs[j].res.ContinuationToken # ""
        /\ \A n \in DOMAIN reads : \A j \in DOMAIN reads[n].res.Tuples :
              KeyOf(reads[n].res.Tuples[j].Key) \in DOMAIN ret.tuples

C2_Witness ==
    /\ pc = "returned" /\ ~ret.nil
    /\ Len(relations) = 2
    /\ Len(ReadsFor(relations[2])) = 2
    /\ reads[Len(reads) - 1].res.ContinuationToken # ""
    /\ reads[Len(reads) - 1].res.Tuples # <<>>
    /\ reads[Len(reads)].res.Tuples = <<>>
    /\ Cardinality(DOMAIN ret.tuples) = 2

\* C3: a follow-up read carries the continuation token the read before it returned.
C3_FollowUpCarriesToken ==
    \A n \in 2..Len(reads) :
        reads[n].req.Relation = reads[n - 1].req.Relation =>
            reads[n].req.ContinuationToken = reads[n - 1].res.ContinuationToken

\* C4: a call returns a complete result or an error with a nil map: a failed query
\* or read ends the call with its error and no map, the failed read is the last
\* read issued, and a map is returned only after every row or relation is consumed.
C4_ErrorOrCompleteResult ==
    /\ ret.err # NoError => (pc = "returned" /\ ret.nil /\ ret.tuples = EmptyMap)
    /\ pc = "returned" => (ret.nil <=> ret.err # NoError)
    /\ \A n \in DOMAIN reads :
          reads[n].res.err # NoError =>
              (n = Len(reads) /\ pc = "returned" /\ ret.err = reads[n].res.err)
    /\ (pc = "returned" /\ ~ret.nil) =>
          IF relations # <<>>
          THEN r = Len(relations) + 1 /\ ret.tuples = out
          ELSE /\ i = Len(memberships) + Len(folders) + Len(permissions)
               /\ ret.tuples = tuples

C4_Witness ==
    /\ pc = "returned"
    /\ ret.err # NoError /\ ret.nil
    /\ r = 2
    /\ out # EmptyMap
    /\ Len(ReadsFor(relations[2])) = 2
    /\ first # <<>>

\* C9: the returned map has one entry per key read, a folder-resource tuple being
\* keyed without its condition, and the entry is the last tuple read with that key,
\* with its own condition.
C9_LastReadWins ==
    (pc = "returned" /\ ~ret.nil) =>
        LET keys == KeysRead(reads)
        IN  /\ DOMAIN ret.tuples = {KeyOf(keys[n]) : n \in DOMAIN keys}
            /\ \A n \in DOMAIN keys :
                  (\A m \in DOMAIN keys : KeyOf(keys[m]) = KeyOf(keys[n]) => m <= n)
                      => ret.tuples[KeyOf(keys[n])] = keys[n]

C9_Witness ==
    /\ pc = "returned" /\ ~ret.nil
    /\ LET keys == KeysRead(reads)
       IN  /\ Len(keys) = 2
           /\ keys[1].Condition = <<"g2">>
           /\ keys[2].Condition = <<"g1">>
           /\ DOMAIN ret.tuples = {"folder:f1#resource_get@user:u1"}
           /\ ret.tuples["folder:f1#resource_get@user:u1"].Condition = <<"g1">>
    /\ Len(reads) = 2

\* C10: after the first read the loop is in more-pages; it leaves more-pages for
\* done only when the last token is empty, and otherwise only by an error; from
\* more-pages it reaches done or fails; at done the list holds the tuples of every
\* page read for the relation, in order.
C10_PaginationTerminates ==
    /\ [][(pc = "list" /\ Len(reads') = Len(reads) + 1 /\ ret'.err = NoError)
            => pc' = "more-pages"]_vars
    /\ [][(pc = "more-pages" /\ pc' # "more-pages")
            => IF c = "" THEN pc' = "done" ELSE ret'.err # NoError]_vars
    /\ [](pc = "done" =>
            /\ c = ""
            /\ [n \in DOMAIN listed |-> listed[n].Key] = KeysRead(ReadsFor(relations[r])))
    /\ (pc = "more-pages") ~> (pc = "done" \/ ret.err # NoError)
    /\ <>(pc = "returned")

C10_Witness ==
    /\ pc = "done"
    /\ Len(ReadsFor(relations[r])) = MaxPages
    /\ Len(listed) = MaxPages * MaxPageTuples

====
